---- MODULE Spec2Model ----
(***************************************************************************)
(* A model of app.py: the MYOB client (MyobClient) and the driver (main).  *)
(*                                                                         *)
(* Text is modelled as a sequence of tokens, so that formatting, joining   *)
(* and stripping are computed and not assumed: "A_B" is <<"A","_","B">>.   *)
(* A JSON object is a function from field names to values; a field that    *)
(* is absent is absent from its DOMAIN. The two loops of main read each    *)
(* element of a list once and in order: the model keeps the length of the  *)
(* list and draws each element when the loop takes it.                     *)
(***************************************************************************)
EXTENDS Integers, Sequences, FiniteSets, TLC

VARIABLES
    pc,           \* where main is
    run,          \* which execution of main this is (1, or 2 after a rerun)
    args,         \* the parsed command line: start_date, end_date
    dir,          \* whether the directory invoice_pdfs exists
    fs,           \* the files under invoice_pdfs: path -> content
    net,          \* the kinds of network request this run has made
    lastUrl,      \* the URL of the last request of _send_request
    api_url,      \* MyobClient.api_url
    len_invoices, \* len(invoices)
    i,            \* how many invoices the for loop has taken
    invoice,      \* the loop variable invoice
    len_attachments, \* len(attachments), for the current invoice
    j,            \* how many attachments the inner for loop has taken
    total_attachments,
    downloaded_attachments,
    log,          \* the last line logged by main or the client
    hist,         \* what happened to the current invoice and to the run
    svc,          \* the remote service and the disk: free, or fixed for two runs
    first,        \* the outcome of the first run, kept for the second
    req,          \* an input of _send_request checked on its own
    sent          \* what _send_request sent for req

vars == <<pc, run, args, dir, fs, net, lastUrl, api_url, len_invoices, i,
          invoice, len_attachments, j, total_attachments, downloaded_attachments, log,
          hist, svc, first, req, sent>>

driverVars == <<pc, run, args, dir, fs, net, lastUrl, api_url, len_invoices, i,
                invoice, len_attachments, j, total_attachments,
                downloaded_attachments, log, hist, svc, first>>

-----------------------------------------------------------------------------
(* Bounds of the model. *)

MaxInvoices == 2

MaxAttachments == 2

MaxParams == 2

-----------------------------------------------------------------------------
(* Text. *)

RECURSIVE Join(_, _)
\* sep.join(parts)
Join(parts, sep) ==
    IF parts = <<>> THEN <<>>
    ELSE IF Len(parts) = 1 THEN parts[1]
    ELSE parts[1] \o sep \o Join(Tail(parts), sep)

RECURSIVE LStrip(_, _)
LStrip(s, c) ==
    IF s # <<>> /\ Head(s) = c THEN LStrip(Tail(s), c) ELSE s

RECURSIVE RStrip(_, _)
RStrip(s, c) ==
    IF s # <<>> /\ s[Len(s)] = c THEN RStrip(SubSeq(s, 1, Len(s) - 1), c) ELSE s

\* s.strip(c)
Strip(s, c) == RStrip(LStrip(s, c), c)

\* dict.get(key, default)
Get(d, key, default) == IF key \in DOMAIN d THEN d[key] ELSE default

\* Whether a value is truthy: None (an absent field) and "" are not.
Truthy(d, key) == key \in DOMAIN d /\ d[key] # <<>>

-----------------------------------------------------------------------------
(* datetime.strptime and strftime, on the tokens of a date. *)

\* The numbers the one- and two-digit tokens of the model stand for.
Digits2 ==
    [t \in {"0", "00", "1", "01", "2", "02", "3", "03", "5", "05", "06",
            "10", "12", "13", "23", "29", "30", "31", "59", "60"} |->
        CASE t \in {"0", "00"} -> 0
          [] t \in {"1", "01"} -> 1
          [] t \in {"2", "02"} -> 2
          [] t \in {"3", "03"} -> 3
          [] t \in {"5", "05"} -> 5
          [] t = "06" -> 6
          [] t = "10" -> 10
          [] t = "12" -> 12
          [] t = "13" -> 13
          [] t = "23" -> 23
          [] t = "29" -> 29
          [] t = "30" -> 30
          [] t = "31" -> 31
          [] t = "59" -> 59
          [] t = "60" -> 60]

\* %Y takes exactly four digits.
Digits4 == [t \in {"2023", "2024"} |-> IF t = "2023" THEN 2023 ELSE 2024]

IsLeap(y) == (y % 4 = 0 /\ y % 100 # 0) \/ y % 400 = 0

DaysIn(y, m) ==
    IF m = 2 THEN (IF IsLeap(y) THEN 29 ELSE 28)
    ELSE IF m \in {4, 6, 9, 11} THEN 30 ELSE 31

\* The fields %Y-%m-%d reads from the first five tokens, or no date.
ParseYMD(s) ==
    IF /\ Len(s) >= 5
       /\ s[1] \in DOMAIN Digits4
       /\ s[2] = "-"
       /\ s[3] \in DOMAIN Digits2
       /\ s[4] = "-"
       /\ s[5] \in DOMAIN Digits2
       /\ Digits2[s[3]] \in 1..12
       /\ Digits2[s[5]] \in 1..DaysIn(Digits4[s[1]], Digits2[s[3]])
    THEN [ok |-> TRUE, y |-> Digits4[s[1]], m |-> Digits2[s[3]], d |-> Digits2[s[5]]]
    ELSE [ok |-> FALSE, y |-> 0, m |-> 0, d |-> 0]

\* datetime.strptime(s, '%Y-%m-%d'): a ValueError is ok = FALSE.
StrptimeDate(s) ==
    IF Len(s) = 5 THEN ParseYMD(s) ELSE [ok |-> FALSE, y |-> 0, m |-> 0, d |-> 0]

\* datetime.strptime(s, "%Y-%m-%dT%H:%M:%S")
StrptimeDateTime(s) ==
    IF /\ Len(s) = 11
       /\ ParseYMD(s).ok
       /\ s[6] = "T"
       /\ s[7] \in DOMAIN Digits2 /\ Digits2[s[7]] \in 0..23
       /\ s[8] = ":"
       /\ s[9] \in DOMAIN Digits2 /\ Digits2[s[9]] \in 0..59
       /\ s[10] = ":"
       /\ s[11] \in DOMAIN Digits2 /\ Digits2[s[11]] \in 0..61
    THEN ParseYMD(s)
    ELSE [ok |-> FALSE, y |-> 0, m |-> 0, d |-> 0]

Pad2(n) ==
    CASE n = 1 -> "01" [] n = 2 -> "02" [] n = 3 -> "03" [] n = 5 -> "05"
      [] n = 6 -> "06" [] n = 10 -> "10" [] n = 12 -> "12" [] n = 29 -> "29"
      [] n = 30 -> "30" [] n = 31 -> "31"

Pad4(n) == IF n = 2023 THEN "2023" ELSE "2024"

\* .strftime("%Y%m%d")
StrftimeYmd(t) == <<Pad4(t.y), Pad2(t.m), Pad2(t.d)>>

-----------------------------------------------------------------------------
(* MyobClient._send_request: the URL it sends. *)

\* 'filters[{}]={}'.format(k, v)
FormatFilter(p) == <<"filters", "[">> \o p[1] \o <<"]", "=">> \o p[2]

\* '{}={}'.format(k, v)
FormatParam(p) == p[1] \o <<"=">> \o p[2]

Formatted(ps, F(_)) == [n \in 1..Len(ps) |-> F(ps[n])]

FilterQueryString(params) ==
    IF "filters" \in DOMAIN params
    THEN Join(Formatted(params.filters, FormatFilter), <<"&">>)
    ELSE <<>>

NonFilterQueryString(params) ==
    Join(Formatted(params.plain, FormatParam), <<"&">>)

\* The two halves joined by '&', before strip.
JoinedHalves(params) ==
    Join(<<FilterQueryString(params), NonFilterQueryString(params)>>, <<"&">>)

QueryStringUnstripped(params) == JoinedHalves(params)

QueryString(params) == Strip(JoinedHalves(params), "&")

\* The URL handed to session.request.
SendUrl(url, params) ==
    IF QueryString(params) # <<>> THEN url \o <<"?">> \o QueryString(params) ELSE url

-----------------------------------------------------------------------------
(* The inputs: command lines, and what the service can answer. *)

StartDates ==
    { <<"2024", "-", "03", "-", "05">>,
      <<"2024", "-", "13", "-", "01">>,
      <<"2024", "/", "03", "/", "05">>,
      <<"05", "-", "03", "-", "2024">> }

EndDates ==
    { <<"2024", "-", "3", "-", "5">>,
      <<"2024", "-", "13", "-", "01">>,
      <<"2023", "-", "02", "-", "29">>,
      <<"2024", "-", "03", "-", "05", "T", "00", ":", "00", ":", "00">> }

T1 == <<"2024", "-", "03", "-", "05", "T", "00", ":", "00", ":", "00">>

T2 == <<"2024", "-", "3", "-", "5", "T", "10", ":", "30", ":", "00">>

InvoiceChoices ==
    { [UID |-> <<"u1">>, Number |-> <<"A">>, Date |-> T1],
      [UID |-> <<"u2">>, Number |-> <<"A", "_", "B">>, Date |-> T2],
      [UID |-> <<"u3">>, Number |-> <<"A">>],
      [UID |-> <<"u4">>, Number |-> <<"A">>, Date |-> T1 \o <<"Z">>],
      [Number |-> <<"A">>, Date |-> T1],
      [UID |-> <<"u6">>] }

AttachmentChoices ==
    { [FileUri |-> <<"s3/1">>, OriginalFileName |-> <<"c">>],
      [FileUri |-> <<"s3/2">>, OriginalFileName |-> <<"B", "_", "c">>],
      [OriginalFileName |-> <<"c">>],
      [FileUri |-> <<>>] }

\* The sequences over S of length at most n.
SeqUpTo(S, n) == UNION { [1..k -> S] : k \in 0..n }

\* The account list of the discovery call.
DiscoveryBodies ==
    { <<>>,
      <<[Name |-> <<"co">>]>>,
      <<[Uri |-> <<"https://a">>]>>,
      <<[Uri |-> <<"https://a">>], [Uri |-> <<"https://b">>]>> }

\* A list response: its status, and its body with the length of the list it
\* holds under Items or Attachments (the elements are drawn by the loops).
InvoiceListResponses ==
    { [status |-> 200, body |-> [Items |-> n]] : n \in 0..MaxInvoices }
    \cup { [status |-> 200, body |-> [Message |-> 0]],
           [status |-> 401, body |-> [Message |-> 0]],
           [status |-> 500, body |-> [Items |-> MaxInvoices]] }

AttachmentListResponses ==
    { [status |-> 200, body |-> [Attachments |-> n]] : n \in 0..MaxAttachments }
    \cup { [status |-> 200, body |-> [Message |-> 0]],
           [status |-> 404, body |-> [Message |-> 0]],
           [status |-> 500, body |-> [Attachments |-> MaxAttachments]] }

\* What a download meets: the status of the fetch, and whether open and write work.
DownloadOutcomes == {"ok", "http_error", "open_error", "write_error"}

-----------------------------------------------------------------------------
(* The service and the disk. Under Spec every answer is drawn afresh; under  *)
(* SpecTwice svc fixes the answer to each request, so that a second run      *)
(* meets what the first met.                                                 *)

DiscoveryAnswers == IF svc.fixed THEN {svc.disc} ELSE DiscoveryBodies

InvoiceListAnswers ==
    IF svc.fixed
    THEN {[status |-> svc.list.status, body |-> [Items |-> Len(svc.list.items)]]}
    ELSE InvoiceListResponses

\* The k-th invoice of the list.
InvoiceAnswers(k) == IF svc.fixed THEN {svc.list.items[k]} ELSE InvoiceChoices

AttachmentListAnswers(uid) ==
    IF svc.fixed
    THEN {[status |-> svc.att[uid].status,
           body |-> [Attachments |-> Len(svc.att[uid].items)]]}
    ELSE AttachmentListResponses

\* The k-th attachment of the list of invoice uid.
AttachmentAnswers(uid, k) ==
    IF svc.fixed THEN {svc.att[uid].items[k]} ELSE AttachmentChoices

DownloadAnswers(file_uri) ==
    IF svc.fixed THEN {svc.dl[file_uri]} ELSE DownloadOutcomes

\* response.content of a successful fetch of file_uri
Content(file_uri) == <<"bytes of">> \o file_uri

\* What a write that fails after open leaves: the file, cut short.
Partial == <<"cut short">>

NoFiles == [p \in {} |-> <<>>]

\* A file already there is kept, and content goes to a second name.
WriteFileNoClobber(files, path, content) ==
    LET to == IF path \in DOMAIN files THEN path \o <<"(1)">> ELSE path
    IN  [p \in DOMAIN files \cup {to} |-> IF p = to THEN content ELSE files[p]]

\* open(path, 'wb') and write: the file at path holds content, whatever it held.
WriteFile(files, path, content) ==
    [p \in DOMAIN files \cup {path} |-> IF p = path THEN content ELSE files[p]]

\* os.makedirs(output_dir, exist_ok=True): never an error for a directory there.
Makedirs(exists) == [raised |-> FALSE, exists |-> TRUE]

-----------------------------------------------------------------------------
(* MyobClient *)

\* __init__: .json()[0]['Uri'], an IndexError or KeyError when there is none.
FirstUri(body) ==
    IF body # <<>> /\ "Uri" \in DOMAIN body[1]
    THEN [raised |-> FALSE, uri |-> body[1].Uri]
    ELSE [raised |-> TRUE, uri |-> <<>>]

\* get_invoices_between_dates: the parameters of its request.
InvoiceParams(start_date, end_date) ==
    [plain |->
        << << <<"$filter">>,
              <<"Date ge datetime'">> \o start_date \o <<"T00:00:00' and Date le datetime'">>
                  \o end_date \o <<"T23:59:59'">> >>,
           << <<"$orderby">>, <<"Date desc">> >> >>]

\* get_invoice_attachments sends no parameters: params is the default {}.
NoParams == [plain |-> <<>>]

\* The status is not looked at.
LenInvoicesOfAnyStatus(response) == Get(response.body, "Items", 0)

\* get_invoices_between_dates: the length of the list it returns for a response.
LenInvoicesOf(response) ==
    IF response.status # 200 THEN 0 ELSE Get(response.body, "Items", 0)

\* get_invoice_attachments: the length of the list it returns for a response.
LenAttachmentsOf(response) ==
    IF response.status # 200 THEN 0 ELSE Get(response.body, "Attachments", 0)

\* download_attachment: whether it raises, and the files it leaves.
DownloadAttachment(files, file_uri, save_path, outcome) ==
    CASE outcome = "http_error" -> [raised |-> TRUE, files |-> files]
      [] outcome = "open_error" -> [raised |-> TRUE, files |-> files]
      [] outcome = "write_error" ->
            [raised |-> TRUE, files |-> WriteFile(files, save_path, Partial)]
      [] outcome = "ok" ->
            [raised |-> FALSE, files |-> WriteFile(files, save_path, Content(file_uri))]

-----------------------------------------------------------------------------
(* main *)

output_dir == <<"invoice_pdfs">>

\* Only the start date is validated.
ValidDatesStartOnly(start_date, end_date) == StrptimeDate(start_date).ok

\* The try block of lines 122-127: no ValueError from either strptime.
ValidDates(start_date, end_date) ==
    StrptimeDate(start_date).ok /\ StrptimeDate(end_date).ok

\* The file name without the invoice number.
FileNameNoNumber(invoice_date_str, invoice_number, original_filename) ==
    output_dir \o <<"/", "invoice", "_">> \o invoice_date_str \o <<"_">>
        \o original_filename

\* f"{output_dir}/invoice_{invoice_date_str}_{invoice_number}_{original_filename}"
FileName(invoice_date_str, invoice_number, original_filename) ==
    output_dir \o <<"/", "invoice", "_">> \o invoice_date_str \o <<"_">>
        \o invoice_number \o <<"_">> \o original_filename

\* total_attachments = len(attachments)
SetTotal(total, n) == n

\* total_attachments += len(attachments)
AddTotal(total, n) == total + n

\* The counter moved on an attempt, not on a success.
CountDownloadAlways(downloaded, raised) == downloaded + 1

\* downloaded_attachments += 1 once download_attachment has returned.
CountDownload(downloaded, raised) == IF raised THEN downloaded ELSE downloaded + 1

NoInvoice == [Null |-> <<>>]

NoRequest == [plain |-> <<>>]

Line(l, a, b) == [line |-> l, a |-> a, b |-> b]

\* What the run has done, kept to state the properties: for the current
\* invoice the download attempts, the skips logged and the attachments seen
\* with a FileUri; for the run the downloads that wrote their whole payload,
\* whether a download failed, the exception that ended it, the invoice date,
\* number and file name each path was written for, the status of the last
\* list responses, whether an attachment list came with another status than
\* 200, and whether os.makedirs was called.
hist0 ==
    [attempts |-> 0, skips |-> 0, withUri |-> 0, okWrites |-> 0,
     failed |-> FALSE, cause |-> "none", keys |-> NoFiles,
     listStatus |-> 0, attStatus |-> 0, attFailed |-> FALSE, madeDir |-> FALSE]

net0 == {}

first0 ==
    [ended |-> FALSE, pc |-> "none", fs |-> NoFiles,
     total |-> 0, downloaded |-> 0, log |-> Line("", 0, 0)]

reqVars == <<req, sent>>

\* The state main starts in, for a command line, a disk and a service.
Start(a, d, files, s) ==
    /\ pc = "start"
    /\ run = 1
    /\ args = a
    /\ dir = d
    /\ fs = files
    /\ net = net0
    /\ lastUrl = <<>>
    /\ api_url = <<>>
    /\ len_invoices = 0
    /\ i = 0
    /\ invoice = NoInvoice
    /\ len_attachments = 0
    /\ j = 0
    /\ total_attachments = 0
    /\ downloaded_attachments = 0
    /\ log = Line("", 0, 0)
    /\ hist = hist0
    /\ svc = s
    /\ first = first0

Init ==
    /\ \E a \in [start_date : StartDates, end_date : EndDates], d \in BOOLEAN :
          Start(a, d, NoFiles, [fixed |-> FALSE])
    /\ req = NoRequest
    /\ sent = <<>>

\* Lines 121-127.
ValidateDates ==
    /\ pc = "start"
    /\ IF ValidDates(args.start_date, args.end_date)
       THEN /\ pc' = "makedirs"
            /\ log' = log
       ELSE /\ pc' = "invalid"
            /\ log' = Line("Dates must be in YYYY-MM-DD format", 0, 0)
    /\ UNCHANGED <<run, args, dir, fs, net, lastUrl, api_url, len_invoices, i,
                   invoice, len_attachments, j, total_attachments,
                   downloaded_attachments, hist, svc, first, reqVars>>

\* Lines 129-131.
MakeOutputDir ==
    /\ pc = "makedirs"
    /\ dir' = Makedirs(dir).exists
    /\ hist' = [hist EXCEPT !.madeDir = TRUE]
    /\ IF Makedirs(dir).raised
       THEN /\ pc' = "crashed"
            /\ log' = Line("FileExistsError", 0, 0)
       ELSE /\ pc' = "client"
            /\ log' = log
    /\ UNCHANGED <<run, args, fs, net, lastUrl, api_url, len_invoices, i, invoice,
                   len_attachments, j, total_attachments, downloaded_attachments,
                   svc, first, reqVars>>

\* Line 134, MyobClient.__init__: an exception here is outside main's try.
NewClient ==
    /\ pc = "client"
    /\ \E body \in DiscoveryAnswers :
          /\ net' = net \cup {"discovery"}
          /\ IF FirstUri(body).raised
             THEN /\ pc' = "crashed"
                  /\ api_url' = api_url
                  /\ log' = Line("Traceback", 0, 0)
             ELSE /\ pc' = "invoices"
                  /\ api_url' = FirstUri(body).uri
                  /\ log' = Line("Using API URL", 0, 0)
    /\ UNCHANGED <<run, args, dir, fs, lastUrl, len_invoices, i, invoice,
                   len_attachments, j, total_attachments, downloaded_attachments,
                   hist, svc, first, reqVars>>

\* Lines 138-141, get_invoices_between_dates.
GetInvoices ==
    /\ pc = "invoices"
    /\ \E response \in InvoiceListAnswers :
          /\ net' = net \cup {"invoices"}
          /\ lastUrl' = SendUrl(api_url \o <<"/Purchase/Bill">>,
                                InvoiceParams(args.start_date, args.end_date))
          /\ len_invoices' = LenInvoicesOf(response)
          /\ hist' = [hist EXCEPT !.listStatus = response.status]
          /\ log' = IF response.status # 200
                    THEN Line("Failed to get invoices", 0, 0)
                    ELSE Line("Found invoices", LenInvoicesOf(response), 0)
    /\ total_attachments' = 0
    /\ downloaded_attachments' = 0
    /\ i' = 0
    /\ pc' = "for invoice"
    /\ UNCHANGED <<run, args, dir, fs, api_url, invoice, len_attachments, j,
                   svc, first, reqVars>>

\* Lines 143-155 and 174-175: the head of the loop over invoices, up to the
\* attachments of the invoice it takes.
ProcessInvoice ==
    /\ pc = "for invoice"
    /\ i < len_invoices
    /\ i' = i + 1
    /\ \E inv \in InvoiceAnswers(i + 1) :
       /\ invoice' = inv
       /\ IF "UID" \notin DOMAIN inv
          THEN \* invoice["UID"] raises KeyError, caught at line 179
               /\ pc' = "aborted"
               /\ log' = Line("Error", 0, 0)
               /\ hist' = [hist EXCEPT !.cause = "KeyError", !.attStatus = 0]
               /\ UNCHANGED <<net, lastUrl, len_attachments, j, total_attachments>>
          ELSE \E response \in AttachmentListAnswers(inv.UID) :
               /\ net' = net \cup {"attachments"}
               /\ lastUrl' = SendUrl(api_url \o <<"/Purchase/Bill/Service/">> \o inv.UID
                                         \o <<"/Attachment">>, NoParams)
               /\ len_attachments' = LenAttachmentsOf(response)
               /\ j' = 0
               /\ hist' = [hist EXCEPT !.attempts = 0, !.skips = 0, !.withUri = 0,
                                       !.attStatus = response.status,
                                       !.attFailed = @ \/ response.status # 200]
               /\ IF LenAttachmentsOf(response) # 0
                  THEN /\ total_attachments' =
                             AddTotal(total_attachments, LenAttachmentsOf(response))
                       /\ pc' = "for attachment"
                       /\ log' = Line("Found attachments", LenAttachmentsOf(response), 0)
                  ELSE /\ total_attachments' = total_attachments
                       /\ pc' = "for invoice"
                       /\ log' = Line("No attachments found", 0, 0)
    /\ UNCHANGED <<run, args, dir, fs, api_url, len_invoices,
                   downloaded_attachments, svc, first, reqVars>>

\* Lines 157-173: one turn of the loop over attachments, download included.
ProcessAttachment ==
    /\ pc = "for attachment"
    /\ j < len_attachments
    /\ j' = j + 1
    /\ \E attachment \in AttachmentAnswers(invoice.UID, j + 1) :
       LET original_filename == Get(attachment, "OriginalFileName", <<"unknown.pdf">>)
           invoice_number == Get(invoice, "Number", <<"unknown">>)
           invoice_date == Get(invoice, "Date", <<"unknown">>)
           parsed == StrptimeDateTime(invoice_date)
           next == IF j + 1 = len_attachments THEN "for invoice" ELSE "for attachment"
       IN  IF ~Truthy(attachment, "FileUri")
           THEN /\ pc' = next
                /\ log' = Line("No FileUri found in attachment data", 0, 0)
                /\ hist' = [hist EXCEPT !.skips = @ + 1]
                /\ UNCHANGED <<fs, net, downloaded_attachments>>
           ELSE IF ~parsed.ok
           THEN \* strptime raises ValueError, caught at line 179
                /\ pc' = "aborted"
                /\ log' = Line("Error", 0, 0)
                /\ hist' = [hist EXCEPT !.cause = "ValueError", !.withUri = @ + 1]
                /\ UNCHANGED <<fs, net, downloaded_attachments>>
           ELSE \E outcome \in DownloadAnswers(attachment.FileUri) :
                LET file_name == FileName(StrftimeYmd(parsed), invoice_number,
                                          original_filename)
                    key == <<invoice_date, invoice_number, original_filename>>
                    r == DownloadAttachment(fs, attachment.FileUri, file_name, outcome)
                    wrote == outcome \in {"ok", "write_error"}
                IN  /\ pc' = next
                    /\ net' = net \cup {"downloads"}
                    /\ fs' = r.files
                    /\ downloaded_attachments' =
                          CountDownload(downloaded_attachments, r.raised)
                    /\ log' = IF r.raised
                              THEN Line("Failed to download attachment", 0, 0)
                              ELSE Line("Successfully downloaded", 0, 0)
                    /\ hist' = [hist EXCEPT
                          !.attempts = @ + 1,
                          !.withUri = @ + 1,
                          !.okWrites = IF outcome = "ok" THEN @ + 1 ELSE @,
                          !.failed = @ \/ outcome # "ok",
                          !.keys = IF wrote
                                   THEN [p \in DOMAIN @ \cup {file_name} |->
                                           IF p = file_name
                                           THEN Get(@, p, {}) \cup {key}
                                           ELSE @[p]]
                                   ELSE @]
    /\ UNCHANGED <<run, args, dir, lastUrl, api_url, len_invoices, i, invoice,
                   len_attachments, total_attachments, svc, first, reqVars>>

\* Line 177, once the loop over invoices has ended.
LogSummary ==
    /\ pc = "for invoice"
    /\ i = len_invoices
    /\ pc' = "done"
    /\ log' = Line("Download complete", total_attachments, downloaded_attachments)
    /\ UNCHANGED <<run, args, dir, fs, net, lastUrl, api_url, len_invoices, i,
                   invoice, len_attachments, j, total_attachments,
                   downloaded_attachments, hist, svc, first, reqVars>>

\* main has returned, or has died of an exception.
Ended == pc \in {"done", "aborted", "invalid", "crashed"}

Next ==
    \/ ValidateDates
    \/ MakeOutputDir
    \/ NewClient
    \/ GetInvoices
    \/ ProcessInvoice
    \/ ProcessAttachment
    \/ LogSummary

Spec == Init /\ [][Next]_vars

-----------------------------------------------------------------------------
(* main run twice, with the same command line, against the same service. *)

TwiceInvoiceChoices ==
    { [UID |-> <<"u1">>, Number |-> <<"A">>, Date |-> T1],
      [UID |-> <<"u2">>, Number |-> <<"A", "_", "B">>, Date |-> T2],
      [UID |-> <<"u2">>, Number |-> <<"A">>] }

TwiceAttachmentChoices ==
    { [FileUri |-> <<"s3/1">>, OriginalFileName |-> <<"c">>],
      [FileUri |-> <<"s3/2">>, OriginalFileName |-> <<"B", "_", "c">>] }

Worlds ==
    [fixed : {TRUE},
     disc : {<<[Uri |-> <<"https://a">>]>>},
     list : [status : {200}, items : SeqUpTo(TwiceInvoiceChoices, MaxInvoices)],
     att : [{<<"u1">>, <<"u2">>} ->
              [status : {200}, items : SeqUpTo(TwiceAttachmentChoices, MaxAttachments)]
              \cup [status : {404}, items : {<<>>}]],
     dl : { [u \in {<<"s3/1">>, <<"s3/2">>} |-> IF u = <<"s3/1">> THEN a ELSE b] :
              a \in {"ok", "http_error"}, b \in {"ok", "write_error"} }]

InitTwice ==
    /\ \E d \in BOOLEAN, w \in Worlds :
          Start([start_date |-> <<"2024", "-", "03", "-", "05">>,
                 end_date |-> <<"2024", "-", "3", "-", "5">>], d, NoFiles, w)
    /\ req = NoRequest
    /\ sent = <<>>

\* The same command is given again once the first run has returned.
Rerun ==
    /\ Ended
    /\ run = 1
    /\ run' = 2
    /\ first' = [ended |-> TRUE, pc |-> pc, fs |-> fs,
                 total |-> total_attachments,
                 downloaded |-> downloaded_attachments, log |-> log]
    /\ pc' = "start"
    /\ net' = net0
    /\ lastUrl' = <<>>
    /\ api_url' = <<>>
    /\ len_invoices' = 0
    /\ i' = 0
    /\ invoice' = NoInvoice
    /\ len_attachments' = 0
    /\ j' = 0
    /\ total_attachments' = 0
    /\ downloaded_attachments' = 0
    /\ log' = Line("", 0, 0)
    /\ hist' = hist0
    /\ UNCHANGED <<args, dir, fs, svc, reqVars>>

NextTwice == Next \/ Rerun

SpecTwice == InitTwice /\ [][NextTwice]_vars

-----------------------------------------------------------------------------
(* _send_request on its own, for any parameters. *)

ParamKeys == { <<"k">>, <<"j">>, <<"$top">> }

ParamValues == { <<>>, <<"v">>, <<"&">> }

\* The items of a dict: pairs whose keys differ.
Items(n) ==
    { l \in SeqUpTo(ParamKeys \X ParamValues, n) :
        \A a, b \in 1..Len(l) : a # b => l[a][1] # l[b][1] }

RequestInputs ==
    { [plain |-> p] : p \in Items(MaxParams) }
    \cup [filters : Items(MaxParams), plain : Items(MaxParams)]

InitRequest ==
    /\ Start([start_date |-> <<"2024", "-", "03", "-", "05">>,
              end_date |-> <<"2024", "-", "03", "-", "05">>], FALSE, NoFiles,
             [fixed |-> FALSE])
    /\ req \in RequestInputs
    /\ sent = <<>>

\* Lines 27-48: the URL requested for req.
SendRequest ==
    /\ sent = <<>>
    /\ sent' = SendUrl(<<"https://a/r">>, req)
    /\ UNCHANGED <<driverVars, req>>

NextRequest == SendRequest

SpecRequest == InitRequest /\ [][NextRequest]_vars

-----------------------------------------------------------------------------
(* The properties. *)

\* The run is over inside main's try block or after it.
RunOver == pc \in {"done", "aborted"}

\* C1: in every state of the driver loop, and in the summary line it logs,
\* the downloaded counter is at most the total counter.
C1_DownloadedAtMostTotal ==
    /\ downloaded_attachments <= total_attachments
    /\ log.line = "Download complete" => log.b <= log.a

\* A summary logged after downloads that succeeded and one that did not.
C1_Witness ==
    /\ pc = "done"
    /\ log.line = "Download complete"
    /\ log.b >= 2
    /\ log.b < log.a
    /\ hist.failed

\* C2: once a download has failed, every later invoice is still taken and the
\* summary is logged: a run in which a download failed ends with the loop over
\* invoices exhausted and the summary as its last line.
C2_FailedDownloadRunCompletes ==
    (RunOver /\ hist.failed) =>
        /\ pc = "done"
        /\ i = len_invoices
        /\ log.line = "Download complete"

\* C3: when the run has left an invoice, or has ended in it, each of the N
\* attachments of its list was either the target of one download attempt (the
\* M with a FileUri) or skipped with a logged notice (the N - M others).
C3_AttemptsAndSkips ==
    (/\ pc \in {"for invoice", "done", "aborted"}
     /\ i > 0
     /\ hist.cause # "KeyError") =>
        /\ hist.attempts = hist.withUri
        /\ hist.skips = len_attachments - hist.withUri

\* C4: with a start or end date that strptime refuses, no network request is
\* made, os.makedirs is not called, the directory and the files stay as they
\* were, and the run ends with the error logged.
C4_BadDateNoEffect ==
    (~StrptimeDate(args.start_date).ok \/ ~StrptimeDate(args.end_date).ok) =>
        /\ pc \in {"start", "invalid"}
        /\ net = {}
        /\ ~hist.madeDir
        /\ fs = NoFiles
        /\ pc = "invalid" => log.line = "Dates must be in YYYY-MM-DD format"

\* The run has ended on an end date of month 13, the start date being good.
C4_Witness ==
    /\ pc = "invalid"
    /\ StrptimeDate(args.start_date).ok
    /\ args.end_date = <<"2024", "-", "13", "-", "01">>

\* The files that hold the whole payload of a fetch.
WholeFiles == { p \in DOMAIN fs : fs[p] # Partial }

\* C5, as claimed: the downloaded counter is the number of downloads that
\* fetched and wrote their whole payload, and no file cut short is left.
C5_NoPartialFile ==
    /\ downloaded_attachments = hist.okWrites
    /\ \A p \in DOMAIN fs : fs[p] # Partial

\* C5, amended: the downloaded counter is the number of downloads that fetched
\* and wrote their whole payload, and every whole file was counted; a download
\* that fails leaves the counter as it was, and leaves the files as they were
\* or one file cut short at its destination.
C5_CounterIsWholeWrites ==
    /\ [](/\ downloaded_attachments = hist.okWrites
          /\ Cardinality(WholeFiles) <= downloaded_attachments)
    /\ [][log'.line = "Failed to download attachment" =>
             /\ downloaded_attachments' = downloaded_attachments
             /\ \/ fs' = fs
                \/ \E p \in DOMAIN fs' :
                      /\ fs'[p] = Partial
                      /\ DOMAIN fs' = DOMAIN fs \cup {p}
                      /\ \A q \in DOMAIN fs : q # p => fs'[q] = fs[q]]_vars

\* A run with a download counted, a download that failed, and a file cut short.
C5_Witness ==
    /\ RunOver
    /\ downloaded_attachments >= 1
    /\ hist.failed
    /\ \E p \in DOMAIN fs : fs[p] = Partial

\* C6: a list response of another status than 200 is an empty list and never
\* ends the run. With no invoice (a status other than 200, or no item) no
\* attachment list is requested, nothing is downloaded or written, and the
\* summary is 0 found, 0 downloaded. An attachment list of another status
\* than 200 adds nothing to the total, and the loop goes on to the next
\* invoice (or to the summary).
C6_ListFailureIsEmptyList ==
    /\ [](/\ hist.listStatus \notin {0, 200} => len_invoices = 0
          /\ (hist.listStatus # 0 /\ len_invoices = 0) =>
                /\ pc \in {"for invoice", "done"}
                /\ "attachments" \notin net
                /\ "downloads" \notin net
                /\ fs = NoFiles
                /\ pc = "done" => log = Line("Download complete", 0, 0)
          /\ hist.attStatus \notin {0, 200} =>
                /\ pc \in {"for invoice", "done"}
                /\ len_attachments = 0
                /\ hist.attempts = 0)
    /\ [][(i' = i + 1 /\ hist'.attStatus \notin {0, 200}) =>
             /\ total_attachments' = total_attachments
             /\ downloaded_attachments' = downloaded_attachments
             /\ fs' = fs
             /\ "downloads" \in net' => "downloads" \in net
             /\ pc' = "for invoice"]_vars

\* An attachment list came with a bad status, and a later invoice had its
\* list fetched and a download attempted.
C6_Witness ==
    /\ hist.attFailed
    /\ hist.attStatus = 200
    /\ hist.attempts >= 1
    /\ pc = "done"

\* C7: once the client is constructed, no failure of a single invoice or
\* attachment ends the run: it ends with every invoice taken and the summary
\* logged.
C7_PerItemFailureSkipped ==
    ("discovery" \in net /\ Ended /\ pc # "crashed") =>
        /\ pc = "done"
        /\ i = len_invoices

\* YYYYMMDD of a timestamp: its year, and its month and day on two digits.
TwoDigits(t) ==
    CASE t = "1" -> "01" [] t = "2" -> "02" [] t = "3" -> "03" [] t = "5" -> "05"
      [] OTHER -> t

DatePart(timestamp) == <<timestamp[1], TwoDigits(timestamp[3]), TwoDigits(timestamp[5])>>

\* invoice_pdfs/invoice_{YYYYMMDD}_{number}_{originalName} for a key: the
\* timestamp and number of an invoice and the file name of an attachment.
PathOf(key) ==
    <<"invoice_pdfs", "/", "invoice", "_">> \o DatePart(key[1]) \o <<"_">> \o key[2]
        \o <<"_">> \o key[3]

\* Every file is at the path of each attachment written to it.
FilesAtTheirPaths ==
    /\ DOMAIN fs = DOMAIN hist.keys
    /\ \A p \in DOMAIN fs : \A key \in hist.keys[p] : p = PathOf(key)

\* C8, as claimed: every file is at the path made of the date part, the
\* number and the file name, and two attachments are written to one path
\* only when their date part, number and file name are the same.
C8_OnePathOnlyForEqualNames ==
    /\ FilesAtTheirPaths
    /\ \A p \in DOMAIN hist.keys : \A k1, k2 \in hist.keys[p] :
          /\ DatePart(k1[1]) = DatePart(k2[1])
          /\ k1[2] = k2[2]
          /\ k1[3] = k2[3]

\* C8, amended: every file is at the path made of the date part, the number
\* and the file name of each attachment written to it, so attachments that
\* agree on the three are written to one path; attachments that differ on
\* them may be written to one path as well.
C8_FilesAtTheirPaths == FilesAtTheirPaths /\ (fs # NoFiles => "downloads" \in net)

\* A file written for an invoice whose timestamp has a one-digit month.
C8_Witness ==
    \E p \in DOMAIN fs : \E key \in hist.keys[p] : key[1] = T2 /\ fs[p] # Partial

\* C9: the second run ends as the first did, not on an error for a directory
\* or a file that is there, and leaves the files the first run left, with the
\* same contents and under the same names.
C9_SecondRunSameFiles ==
    (run = 2 /\ Ended) =>
        /\ pc = first.pc
        /\ pc # "crashed"
        /\ fs = first.fs
        /\ downloaded_attachments = first.downloaded
        /\ total_attachments = first.total
        /\ log = first.log

\* A second run that has written again the files of the first.
C9_Witness ==
    /\ run = 2
    /\ pc = "done"
    /\ downloaded_attachments >= 2
    /\ fs # NoFiles
    /\ fs = first.fs

\* The filters[key]=value pairs of the parameters, joined by '&'.
FilterHalf(params) ==
    IF "filters" \in DOMAIN params
    THEN Join([n \in 1..Len(params.filters) |->
                 <<"filters", "[">> \o params.filters[n][1] \o <<"]", "=">>
                     \o params.filters[n][2]], <<"&">>)
    ELSE <<>>

\* The key=value pairs of the parameters, joined by '&'.
PlainHalf(params) ==
    Join([n \in 1..Len(params.plain) |->
            params.plain[n][1] \o <<"=">> \o params.plain[n][2]], <<"&">>)

\* The two halves with a bare '&' between them.
RawJoin(params) == FilterHalf(params) \o <<"&">> \o PlainHalf(params)

\* q is s without the '&' it starts with and ends with.
IsStripped(q, s) ==
    /\ q # <<>> => q[1] # "&" /\ q[Len(q)] # "&"
    /\ \E a \in 1..Len(s) + 1 : \E b \in 0..Len(s) :
          /\ q = SubSeq(s, a, b)
          /\ \A n \in 1..Len(s) : (n < a \/ n > b) => s[n] = "&"

\* What follows the '?' of the URL sent, if anything.
SentQuery ==
    IF Len(sent) > 1 THEN SubSeq(sent, 3, Len(sent)) ELSE <<>>

\* C10, as claimed: the two halves are joined by '&' and the result, with
\* the '&' an empty half leaves, is sent after '?' (nothing is appended when
\* both halves are empty).
C10_StrayAmpersandSent ==
    sent # <<>> =>
        sent = IF FilterHalf(req) = <<>> /\ PlainHalf(req) = <<>>
               THEN <<"https://a/r">>
               ELSE <<"https://a/r", "?">> \o RawJoin(req)

\* C10, amended: the two halves are joined by '&' even when one is empty, and
\* the '&' the result starts with and ends with are removed; what is left is
\* sent after '?', and nothing is appended when nothing is left.
C10_AmpersandStripped ==
    sent # <<>> =>
        /\ sent[1] = "https://a/r"
        /\ Len(sent) # 2
        /\ Len(sent) > 1 => sent[2] = "?"
        /\ IsStripped(SentQuery, RawJoin(req))

\* A request with no filter and a parameter: the join starts with '&', the
\* query sent does not.
C10_Witness ==
    /\ sent # <<>>
    /\ "filters" \notin DOMAIN req
    /\ req.plain # <<>>
    /\ Head(RawJoin(req)) = "&"
    /\ Len(sent) > 2
    /\ sent[3] # "&"

====
